---- MODULE Spec2Model ----
(***************************************************************************)
(* Model of dashboard.py: a Streamlit script that is re-run from top to    *)
(* bottom on every user interaction.  One run of the script ("render") is  *)
(* modelled section by section; the only state that survives a render is   *)
(* the st.cache_data cache of load_data, the file on disk, the text in the  *)
(* lookup box and the set of buttons on the page.                           *)
(*                                                                         *)
(* Strings that the code inspects character by character (column names,    *)
(* the lookup text) are sequences of one-character strings.  Cell values   *)
(* of the CSV are integers.                                                 *)
(***************************************************************************)
EXTENDS Integers, Sequences, FiniteSets, TLC

\* ------------------------------------------------------------------ bounds
MaxRows == 2      \* longest table enumerated exhaustively
MaxCols == 3      \* longest header enumerated exhaustively
MaxLong == 11     \* longest patterned table (more rows than the preview limit)

\* -------------------------------------------------------- program constants
QuickLimit == 2       \* .head(2) of the quick-test ids
PreviewLimit == 10    \* .head(10) of the preview tabs

\* ---------------------------------------------------------- string helpers
Min(a, b) == IF a < b THEN a ELSE b

Whitespace == {" ", "\t"}
Digits == {"0", "1", "2", "3", "4", "5", "6", "7", "8", "9"}

DigitVal(c) ==
  CASE c = "0" -> 0 [] c = "1" -> 1 [] c = "2" -> 2 [] c = "3" -> 3
    [] c = "4" -> 4 [] c = "5" -> 5 [] c = "6" -> 6 [] c = "7" -> 7
    [] c = "8" -> 8 [] c = "9" -> 9

DigitChar(d) ==
  CASE d = 0 -> "0" [] d = 1 -> "1" [] d = 2 -> "2" [] d = 3 -> "3"
    [] d = 4 -> "4" [] d = 5 -> "5" [] d = 6 -> "6" [] d = 7 -> "7"
    [] d = 8 -> "8" [] d = 9 -> "9"

\* str.lower() on one character (the upper-case letters header names use)
LowerChar(c) ==
  CASE c = "A" -> "a" [] c = "C" -> "c" [] c = "D" -> "d" [] c = "E" -> "e"
    [] c = "F" -> "f" [] c = "I" -> "i" [] c = "N" -> "n" [] c = "O" -> "o"
    [] c = "P" -> "p" [] c = "R" -> "r" [] c = "T" -> "t"
    [] OTHER -> c

\* col.lower()
Lower(s) == [i \in 1..Len(s) |-> LowerChar(s[i])]

\* str.strip(): drop leading and trailing whitespace, keep inner whitespace
RECURSIVE LStrip(_)
LStrip(s) ==
  IF s # <<>> /\ Head(s) \in Whitespace THEN LStrip(Tail(s)) ELSE s

RECURSIVE RStrip(_)
RStrip(s) ==
  IF s # <<>> /\ s[Len(s)] \in Whitespace
  THEN RStrip(SubSeq(s, 1, Len(s) - 1)) ELSE s

Strip(s) == RStrip(LStrip(s))

\* `sub in s` for Python strings
Contains(s, sub) ==
  \E i \in 0..(Len(s) - Len(sub)) : SubSeq(s, i + 1, i + Len(sub)) = sub

PREDICTION == <<"p", "r", "e", "d", "i", "c", "t", "i", "o", "n">>
TRANSACTION == <<"t", "r", "a", "n", "s", "a", "c", "t", "i", "o", "n">>

\* ------------------------------------------------------------ int(str)
\* Python int(s): surrounding whitespace ignored, optional sign, then digits
\* that may be grouped by single underscores; anything else is ValueError.
RECURSIVE DigitsValue(_, _)
DigitsValue(s, acc) ==
  IF s = <<>> THEN acc
  ELSE IF Head(s) = "_" THEN DigitsValue(Tail(s), acc)
  ELSE DigitsValue(Tail(s), 10 * acc + DigitVal(Head(s)))

ValidBody(b) ==
  /\ b # <<>>
  /\ \A i \in 1..Len(b) : b[i] \in Digits \cup {"_"}
  /\ b[1] \in Digits
  /\ b[Len(b)] \in Digits
  /\ \A i \in 1..(Len(b) - 1) : ~(b[i] = "_" /\ b[i + 1] = "_")

ParseInt(s) ==
  LET t == Strip(s)
      signed == t # <<>> /\ t[1] \in {"+", "-"}
      body == IF signed THEN Tail(t) ELSE t
  IN IF ValidBody(body)
     THEN [ok |-> TRUE,
           val |-> IF signed /\ t[1] = "-"
                   THEN 0 - DigitsValue(body, 0) ELSE DigitsValue(body, 0)]
     ELSE [ok |-> FALSE, val |-> 0]

\* f"{n}" for an integer n
RECURSIVE NatStr(_)
NatStr(n) ==
  IF n < 10 THEN <<DigitChar(n)>>
  ELSE NatStr(n \div 10) \o <<DigitChar(n % 10)>>

IntStr(n) == IF n < 0 THEN <<"-">> \o NatStr(0 - n) ELSE NatStr(n)

\* --------------------------------------------------------- the input file
\* Header names as they appear in predictions.csv, before any trimming.
N_TransactionID == <<"T", "r", "a", "n", "s", "a", "c", "t", "i", "o", "n", "I", "D">>
N_isFraud_prediction ==
  <<" ", "i", "s", "F", "r", "a", "u", "d", "_",
    "p", "r", "e", "d", "i", "c", "t", "i", "o", "n", " ">>
N_Transaction_Prediction ==
  <<"T", "r", "a", "n", "s", "a", "c", "t", "i", "o", "n", "_",
    "P", "r", "e", "d", "i", "c", "t", "i", "o", "n", "\t">>
N_transact_ion == <<"t", "r", "a", "n", "s", "a", "c", "t", " ", "i", "o", "n">>
N_amt == <<"a", "m", "t">>

ColNames ==
  {N_TransactionID, N_isFraud_prediction, N_Transaction_Prediction,
   N_transact_ion, N_amt}

\* Headers: the trimmed names are pairwise distinct, so a name selects one column.
Headers ==
  {h \in UNION {[1..n -> ColNames] : n \in 1..MaxCols} :
     \A i, j \in 1..Len(h) : Strip(h[i]) = Strip(h[j]) => i = j}

\* cell values of the id column and of the prediction column
IdVals == {1, 2}
PredVals == {0, 1, 2}       \* 0 legitimate, 1 fraud, 2 out of range

CsvFile(columns, rows) ==
  [kind |-> "csv", msg |-> "", columns |-> columns, rows |-> rows]
MissingFile == [kind |-> "missing", msg |-> "", columns |-> <<>>, rows |-> <<>>]
BadFile(m) == [kind |-> "bad", msg |-> m, columns |-> <<>>, rows |-> <<>>]

\* str(e) of the exceptions read_csv can raise; MemoryError() has no text
ParseMessages == {"No columns to parse from file", ""}

CanonicalHeader == <<N_TransactionID, N_isFraud_prediction>>

\* every table of at most MaxRows rows under the canonical header
ShortFiles ==
  {CsvFile(CanonicalHeader, rows) :
     rows \in UNION {[1..n -> {<<i, p>> : i \in IdVals, p \in PredVals}] :
                       n \in 0..MaxRows}}

\* every header, with no row or with one row
WideFilesOf(h) ==
  {CsvFile(h, <<>>), CsvFile(h, <<[i \in 1..Len(h) |-> i % 3]>>)}

WideFiles == UNION {WideFilesOf(h) : h \in Headers}

\* long tables: unique ids 1..n, every k-th prediction is p, the others q
LongFiles ==
  {CsvFile(CanonicalHeader,
           [i \in 1..n |-> <<i, IF i % k = 0 THEN p ELSE q>>]) :
     n \in PreviewLimit..MaxLong, k \in 1..3, p \in PredVals, q \in 0..1}

Files ==
  ShortFiles \cup WideFiles \cup LongFiles
    \cup {MissingFile} \cup {BadFile(m) : m \in ParseMessages}

\* what the user can have typed into the lookup box
T_empty == <<>>
T_abc == <<"a", "b", "c">>
T_1 == <<"1">>
T_2 == <<" ", "2", "\t">>
T_float == <<"1", ".", "0">>
T_11 == <<"1", "_", "1">>
Texts == {T_empty, T_abc, T_1, T_2, T_float, T_11}

\* ------------------------------------------------------------ DataFrame
NoDF == [isNone |-> TRUE, columns |-> <<>>, rows |-> <<>>]
DataFrame(columns, rows) == [isNone |-> FALSE, columns |-> columns, rows |-> rows]

NoError == "None"
NoCol == <<"N", "o", "n", "e">>

\* position of the column called name
ColIndex(d, name) == CHOOSE i \in 1..Len(d.columns) : d.columns[i] = name

\* df[name]: the values of one column, in row order
Column(d, name) == [r \in 1..Len(d.rows) |-> d.rows[r][ColIndex(d, name)]]

\* df[df[name] == v]: the rows whose cell equals v, in row order
WhereEq(d, name, v) ==
  LET c == ColIndex(d, name)
      keep(row) == row[c] = v
  IN DataFrame(d.columns, SelectSeq(d.rows, keep))

\* .tail(n) in place of .head(n)
HeadRows_Tail(d, n) ==
  DataFrame(d.columns,
            SubSeq(d.rows, Len(d.rows) - Min(n, Len(d.rows)) + 1, Len(d.rows)))

\* .head(n)
HeadRows(d, n) == DataFrame(d.columns, SubSeq(d.rows, 1, Min(n, Len(d.rows))))

\* Series.sum()
RECURSIVE SeqSum(_)
SeqSum(s) == IF s = <<>> THEN 0 ELSE Head(s) + SeqSum(Tail(s))

\* ------------------------------------------------- the script's sections
VARIABLES
  file,           \* predictions.csv on disk
  cache,          \* st.cache_data entry of load_data
  buttons,        \* widgets on the page after the last render
  pc,             \* section the running render is at, or how it ended
  search_id,      \* text of the lookup box
  clicked,        \* the button whose click started this render
  df, error,      \* result of load_data()
  pred_col, id_col,
  total, fraud, legit, fraud_rate,
  legit_ids, fraud_ids,
  fraud_samples, legit_samples,
  shown,          \* what this render has put on the page
  baseline        \* results of the first completed render (history)

vars ==
  <<file, cache, buttons, pc, search_id, clicked, df, error, pred_col, id_col,
    total, fraud, legit, fraud_rate, legit_ids, fraud_ids,
    fraud_samples, legit_samples, shown, baseline>>

\* the body of load_data: pd.read_csv and the two except clauses
ReadCsv(f) ==
  CASE f.kind = "csv" -> [df |-> DataFrame(f.columns, f.rows), error |-> NoError]
    [] f.kind = "missing" -> [df |-> NoDF, error |-> "predictions.csv not found"]
    [] OTHER -> [df |-> NoDF, error |-> f.msg]

\* load_data without the decorator: the file is read on every render
LoadData_Uncached(c, f) == [valid |-> TRUE, value |-> ReadCsv(f)]

\* @st.cache_data: the body runs once, later calls return the stored value
LoadData(c, f) ==
  IF c.valid THEN c ELSE [valid |-> TRUE, value |-> ReadCsv(f)]

\* `if error:` -- None and the empty string are both falsy
Truthy(e) == e # NoError /\ e # ""

\* df.columns.str.strip()
StripColumns(columns) == [i \in 1..Len(columns) |-> Strip(columns[i])]

\* for col in columns: if sub in col.lower(): found = col; break
RECURSIVE FirstMatch(_, _)
FirstMatch(columns, sub) ==
  IF columns = <<>> THEN NoCol
  ELSE IF Contains(Lower(Head(columns)), sub) THEN Head(columns)
  ELSE FirstMatch(Tail(columns), sub)

\* the match tested on the name as written, without .lower()
PredCol_CaseSensitive(columns) ==
  LET hits == {i \in 1..Len(columns) : Contains(columns[i], PREDICTION)}
  IN IF hits = {} THEN columns[Len(columns)]
     ELSE columns[CHOOSE i \in hits : \A j \in hits : i <= j]

PredCol(columns) ==
  LET found == FirstMatch(columns, PREDICTION)
  IN IF found = NoCol THEN columns[Len(columns)] ELSE found

IdCol(columns) ==
  LET found == FirstMatch(columns, TRANSACTION)
  IN IF found = NoCol THEN columns[1] ELSE found

\* fraud = int(df[pred_col].sum())
FraudSum(d, pcol) == SeqSum(Column(d, pcol))

\* the rate without the `if total > 0` guard
FraudRate_Unguarded(f, t) == [num |-> f * 100, den |-> t]

\* (fraud / total) * 100 if total > 0 else 0, as the fraction num/den
FraudRate(f, t) ==
  IF t > 0 THEN [num |-> f * 100, den |-> t] ELSE [num |-> 0, den |-> 1]

\* the lookup reading .values[-1], the last matching row
LookupMessage_LastMatch(d, icol, pcol, search_button, text) ==
  IF search_button /\ text # <<>>
  THEN LET parsed == ParseInt(text)
       IN IF ~parsed.ok THEN "invalid_id"
          ELSE LET result == WhereEq(d, icol, parsed.val)
               IN IF Len(result.rows) > 0
                  THEN LET prediction == Column(result, pcol)[Len(result.rows)]
                       IN IF prediction = 1 THEN "fraud_alert" ELSE "safe_alert"
                  ELSE "not_found"
  ELSE IF search_button THEN "empty_input"
  ELSE "none"

\* the lookup testing `if search_button:` only, so that "" reaches int()
LookupMessage_NoEmptyTest(d, icol, pcol, search_button, text) ==
  IF search_button
  THEN LET parsed == ParseInt(text)
       IN IF ~parsed.ok THEN "invalid_id"
          ELSE LET result == WhereEq(d, icol, parsed.val)
               IN IF Len(result.rows) > 0
                  THEN LET prediction == Column(result, pcol)[1]
                       IN IF prediction = 1 THEN "fraud_alert" ELSE "safe_alert"
                  ELSE "not_found"
  ELSE "none"

\* the lookup widget: which message the section puts on the page
LookupMessage(d, icol, pcol, search_button, text) ==
  IF search_button /\ text # <<>>
  THEN LET parsed == ParseInt(text)
       IN IF ~parsed.ok THEN "invalid_id"
          ELSE LET result == WhereEq(d, icol, parsed.val)
               IN IF Len(result.rows) > 0
                  THEN LET prediction == Column(result, pcol)[1]
                       IN IF prediction = 1 THEN "fraud_alert" ELSE "safe_alert"
                  ELSE "not_found"
  ELSE IF search_button THEN "empty_input"
  ELSE "none"

\* df[df[pred_col] == v][id_col].head(2).tolist()
SampleIds(d, icol, pcol, v) ==
  LET ids == Column(WhereEq(d, pcol, v), icol)
  IN SubSeq(ids, 1, Min(QuickLimit, Len(ids)))

\* df[df[pred_col] == v].head(10)
SampleRows(d, pcol, v) == HeadRows(WhereEq(d, pcol, v), PreviewLimit)

\* two st.button calls with the same label and no key: DuplicateWidgetID
DuplicateLabel(ids) == Len(ids) > 1 /\ ids[1] = ids[2]

NoRate == [num |-> 0, den |-> 0]
NoBaseline ==
  [set |-> FALSE, df |-> NoDF, pred_col |-> NoCol, id_col |-> NoCol,
   total |-> 0, fraud |-> 0, legit |-> 0, fraud_rate |-> NoRate,
   legit_ids |-> <<>>, fraud_ids |-> <<>>,
   fraud_samples |-> NoDF, legit_samples |-> NoDF]

LookupTags == {"fraud_alert", "safe_alert", "not_found", "invalid_id", "empty_input"}

\* a fresh run of the script: no variable of the previous run survives
FreshRun ==
  /\ df' = NoDF /\ error' = NoError
  /\ pred_col' = NoCol /\ id_col' = NoCol
  /\ total' = 0 /\ fraud' = 0 /\ legit' = 0 /\ fraud_rate' = NoRate
  /\ legit_ids' = <<>> /\ fraud_ids' = <<>>
  /\ fraud_samples' = NoDF /\ legit_samples' = NoDF
  /\ shown' = {}

Init ==
  /\ file \in Files
  /\ cache = [valid |-> FALSE, value |-> [df |-> NoDF, error |-> NoError]]
  /\ buttons = {}
  /\ pc = "load"
  /\ search_id = <<>>
  /\ clicked = "none"
  /\ df = NoDF /\ error = NoError
  /\ pred_col = NoCol /\ id_col = NoCol
  /\ total = 0 /\ fraud = 0 /\ legit = 0 /\ fraud_rate = NoRate
  /\ legit_ids = <<>> /\ fraud_ids = <<>>
  /\ fraud_samples = NoDF /\ legit_samples = NoDF
  /\ shown = {}
  /\ baseline = NoBaseline

\* A user interaction re-runs the script.  Only widgets that are on the page
\* can be used; the text of a text_input that was not rendered is dropped.
StartRender(text, click) ==
  /\ pc \in {"done", "stopped", "crashed"}
  /\ click \in buttons \cup {"none"}
  /\ text = (IF "search_id" \in buttons THEN text ELSE <<>>)
  /\ search_id' = text
  /\ clicked' = click
  /\ pc' = "load"
  /\ FreshRun
  /\ UNCHANGED <<file, cache, buttons, baseline>>

\* lines 83-87: df, error = load_data(); if error: st.error(...); st.stop()
Load ==
  /\ pc = "load"
  /\ cache' = LoadData(cache, file)
  /\ df' = cache'.value.df
  /\ error' = cache'.value.error
  /\ IF Truthy(error')
     THEN /\ shown' = shown \cup {"load_error"}
          /\ pc' = "stopped"
          /\ buttons' = {}
     ELSE /\ shown' = shown
          /\ pc' = "detect"
          /\ buttons' = buttons
  /\ UNCHANGED <<file, search_id, clicked, pred_col, id_col, total, fraud,
                 legit, fraud_rate, legit_ids, fraud_ids, fraud_samples,
                 legit_samples, baseline>>

\* lines 90-108; df.columns on None raises AttributeError
DetectColumns ==
  /\ pc = "detect"
  /\ IF df.isNone
     THEN /\ pc' = "crashed"
          /\ shown' = shown \cup {"exception"}
          /\ buttons' = {}
          /\ UNCHANGED <<df, pred_col, id_col>>
     ELSE /\ df' = DataFrame(StripColumns(df.columns), df.rows)
          /\ pred_col' = PredCol(df'.columns)
          /\ id_col' = IdCol(df'.columns)
          /\ pc' = "metrics"
          /\ UNCHANGED <<shown, buttons>>
  /\ UNCHANGED <<file, cache, search_id, clicked, error, total, fraud, legit,
                 fraud_rate, legit_ids, fraud_ids, fraud_samples,
                 legit_samples, baseline>>

\* lines 111-147
Metrics ==
  /\ pc = "metrics"
  /\ total' = Len(df.rows)
  /\ fraud' = FraudSum(df, pred_col)
  /\ legit' = total' - fraud'
  /\ fraud_rate' = FraudRate(fraud', total')
  /\ shown' = shown \cup {"metrics"}
  /\ pc' = "lookup"
  /\ UNCHANGED <<file, cache, buttons, search_id, clicked, df, error, pred_col,
                 id_col, legit_ids, fraud_ids, fraud_samples, legit_samples,
                 baseline>>

\* lines 152-197
Lookup ==
  /\ pc = "lookup"
  /\ LET msg == LookupMessage(df, id_col, pred_col, clicked = "search", search_id)
     IN shown' = (IF msg = "none" THEN shown ELSE shown \cup {msg})
  /\ pc' = "quick"
  /\ UNCHANGED <<file, cache, buttons, search_id, clicked, df, error, pred_col,
                 id_col, total, fraud, legit, fraud_rate, legit_ids, fraud_ids,
                 fraud_samples, legit_samples, baseline>>

\* lines 202-229: the buttons are created left to right, a repeated label
\* stops the run at the second of the two
QuickTest ==
  /\ pc = "quick"
  /\ legit_ids' = SampleIds(df, id_col, pred_col, 0)
  /\ fraud_ids' = SampleIds(df, id_col, pred_col, 1)
  /\ LET legitButtons ==
           {b \in {"legit0", "legit1"} :
              (b = "legit0" /\ Len(legit_ids') > 0) \/
              (b = "legit1" /\ Len(legit_ids') > 1 /\ ~DuplicateLabel(legit_ids'))}
         fraudButtons ==
           IF DuplicateLabel(legit_ids') THEN {}
           ELSE {b \in {"fraud0", "fraud1"} :
                   (b = "fraud0" /\ Len(fraud_ids') > 0) \/
                   (b = "fraud1" /\ Len(fraud_ids') > 1
                      /\ ~DuplicateLabel(fraud_ids'))}
         crash == DuplicateLabel(legit_ids') \/ DuplicateLabel(fraud_ids')
     IN /\ buttons' = {"search_id", "search"} \cup legitButtons \cup fraudButtons
        /\ shown' = shown
             \cup (IF clicked \in {"legit0", "legit1"} /\ clicked \in legitButtons
                   THEN {"quick_legitimate"} ELSE {})
             \cup (IF clicked \in {"fraud0", "fraud1"} /\ clicked \in fraudButtons
                   THEN {"quick_fraudulent"} ELSE {})
             \cup (IF crash THEN {"exception"} ELSE {})
        /\ pc' = IF crash THEN "crashed" ELSE "sample"
  /\ UNCHANGED <<file, cache, search_id, clicked, df, error, pred_col, id_col,
                 total, fraud, legit, fraud_rate, fraud_samples, legit_samples,
                 baseline>>

\* lines 234-273: chart, statistics and the two preview tabs
SampleData ==
  /\ pc = "sample"
  /\ fraud_samples' = SampleRows(df, pred_col, 1)
  /\ legit_samples' = SampleRows(df, pred_col, 0)
  /\ shown' = shown \cup {"chart", "legit_table"}
       \cup (IF Len(fraud_samples'.rows) > 0
             THEN {"fraud_table"} ELSE {"no_fraud_info"})
  /\ pc' = "done"
  /\ baseline' =
       IF baseline.set THEN baseline
       ELSE [set |-> TRUE, df |-> df, pred_col |-> pred_col, id_col |-> id_col,
             total |-> total, fraud |-> fraud, legit |-> legit,
             fraud_rate |-> fraud_rate,
             legit_ids |-> legit_ids, fraud_ids |-> fraud_ids,
             fraud_samples |-> fraud_samples', legit_samples |-> legit_samples']
  /\ UNCHANGED <<file, cache, buttons, search_id, clicked, df, error, pred_col,
                 id_col, total, fraud, legit, fraud_rate, legit_ids, fraud_ids>>

\* the environment replaces predictions.csv between renders
FileChanged ==
  /\ pc \in {"done", "stopped", "crashed"}
  /\ file.kind = "csv"
  /\ file' \in {MissingFile, CsvFile(file.columns, <<>>)} \ {file}
  /\ UNCHANGED <<cache, buttons, pc, search_id, clicked, df, error, pred_col,
                 id_col, total, fraud, legit, fraud_rate, legit_ids, fraud_ids,
                 fraud_samples, legit_samples, shown, baseline>>

Next ==
  \/ \E text \in Texts, click \in {"none", "search", "legit0", "legit1",
                                   "fraud0", "fraud1"} : StartRender(text, click)
  \/ Load
  \/ DetectColumns
  \/ Metrics
  \/ Lookup
  \/ QuickTest
  \/ SampleData
  \/ FileChanged

Spec == Init /\ [][Next]_vars

TypeOK ==
  /\ pc \in {"load", "detect", "metrics", "lookup", "quick", "sample",
             "done", "stopped", "crashed"}
  /\ search_id \in Texts

\* ------------------------------------------------------------ properties
\* how far the running (or ended) render got
Loaded == pc # "load" /\ error = NoError /\ ~df.isNone
MetricsRan == "metrics" \in shown /\ pc # "metrics"
LookupRan == "metrics" \in shown /\ pc \in {"quick", "sample", "done", "crashed"}
QuickRan == "metrics" \in shown /\ pc \in {"sample", "done", "crashed"}

\* cell of row i in the column called name
Cell(d, i, name) == d.rows[i][ColIndex(d, name)]

\* rows whose cell in column name is v / is not v
RowsWith(d, name, v) == {i \in 1..Len(d.rows) : Cell(d, i, name) = v}
RowsWithout(d, name, v) == {i \in 1..Len(d.rows) : Cell(d, i, name) # v}

Least(S) == CHOOSE i \in S : \A j \in S : i <= j
\* the j-th smallest element of S
Nth(S, j) == CHOOSE i \in S : Cardinality({k \in S : k <= i}) = j

\* the file's header, every name trimmed
TrimmedHeader == [i \in 1..Len(cache.value.df.columns) |->
                    Strip(cache.value.df.columns[i])]
NamesWith(sub) ==
  {i \in 1..Len(TrimmedHeader) : Contains(Lower(TrimmedHeader[i]), sub)}

\* C1: after column detection, predictionColumn is the first trimmed name
\* whose lower-cased form contains "prediction", else the last name;
\* idColumn is the first containing "transaction", else the first name.
C1_ColumnResolution ==
  (Loaded /\ pc # "detect") =>
     /\ pred_col = TrimmedHeader[IF NamesWith(PREDICTION) = {}
                                 THEN Len(TrimmedHeader)
                                 ELSE Least(NamesWith(PREDICTION))]
     /\ id_col = TrimmedHeader[IF NamesWith(TRANSACTION) = {}
                               THEN 1 ELSE Least(NamesWith(TRANSACTION))]

\* two names contain "prediction": the first one, written with capitals and
\* a trailing tab in the file, is taken; it is also the only one containing
\* "transaction"
C1_Witness ==
  /\ pc = "metrics"
  /\ cache.value.df.columns =
       <<N_amt, N_Transaction_Prediction, N_isFraud_prediction>>
  /\ pred_col = Strip(N_Transaction_Prediction)
  /\ id_col = Strip(N_Transaction_Prediction)

\* C2: summarize yields total = number of records, fraudCount = number of
\* records whose prediction equals 1, legitCount = total - fraudCount.
C2_MetricCounts ==
  MetricsRan =>
     /\ total = Len(df.rows)
     /\ fraud = Cardinality(RowsWith(df, pred_col, 1))
     /\ legit = total - fraud

\* the integer the lookup texts of the model stand for
ExpectedInt(text) ==
  CASE text = T_1 -> 1 [] text = T_2 -> 2 [] text = T_11 -> 11 [] OTHER -> 0
IntegerTexts == {T_1, T_2, T_11}

LookupShown == shown \cap LookupTags

\* C3: a lookup of a text that is the integer n is decided by the first
\* record, in table order, whose id is n: Fraudulent if its prediction is 1,
\* Legitimate otherwise, NotFound exactly when no record has id n.
C3_LookupFirstMatch ==
  (LookupRan /\ clicked = "search" /\ search_id \in IntegerTexts) =>
     LET hits == RowsWith(df, id_col, ExpectedInt(search_id))
     IN LookupShown =
          (IF hits = {} THEN {"not_found"}
           ELSE IF Cell(df, Least(hits), pred_col) = 1 THEN {"fraud_alert"}
           ELSE {"safe_alert"})

\* two records share id 1, the first legitimate and the second fraud
C3_Witness ==
  /\ LookupRan /\ clicked = "search" /\ search_id = T_1
  /\ df.rows = <<<<1, 0>>, <<1, 1>>>>
  /\ id_col = N_TransactionID
  /\ LookupShown = {"safe_alert"}

\* the predicates of the sample filters (== 1 and == 0)
IsFraud(d, pcol, i) == Cell(d, i, pcol) = 1
IsLegit(d, pcol, i) == Cell(d, i, pcol) = 0

\* C4: every record whose prediction is not 1 is legitimate for every
\* operation: summarize counts it in legitCount and not in fraudCount, it
\* satisfies isLegit and not isFraud, and the lookup it decides is Legitimate.
C4_UniformClassification ==
  (pc = "done") =>
     /\ fraud = Cardinality(RowsWith(df, pred_col, 1))
     /\ legit = Cardinality(RowsWithout(df, pred_col, 1))
     /\ \A i \in RowsWithout(df, pred_col, 1) :
          /\ IsLegit(df, pred_col, i) /\ ~IsFraud(df, pred_col, i)
          /\ (i = Least(RowsWith(df, id_col, Cell(df, i, id_col)))) =>
               LookupMessage(df, id_col, pred_col, TRUE,
                             IntStr(Cell(df, i, id_col))) = "safe_alert"

\* C5: a failed load (the file is missing or cannot be read) shows the
\* error and halts the render before any other section runs; a successful
\* load shows no load error and the render goes on.
C5_LoadFailureHalts ==
  (pc # "load") =>
     IF cache.value.error # NoError
     THEN /\ pc = "stopped"
          /\ shown = {"load_error"}
          /\ pred_col = NoCol /\ id_col = NoCol
     ELSE /\ pc # "stopped"
          /\ "load_error" \notin shown

\* the results of the running render that do not come from the lookup box
Results ==
  [set |-> TRUE, df |-> df, pred_col |-> pred_col, id_col |-> id_col,
   total |-> total, fraud |-> fraud, legit |-> legit, fraud_rate |-> fraud_rate,
   legit_ids |-> legit_ids, fraud_ids |-> fraud_ids,
   fraud_samples |-> fraud_samples, legit_samples |-> legit_samples]

InvalidTexts == {T_abc, T_float}

\* C6: a lookup submitted with an empty box shows the prompt to enter an id,
\* one submitted with text that is not an integer shows the validation
\* message; neither shows a lookup result or raises, and the table, the
\* metrics and the samples of that render are those of the page load.
C6_BadLookupContained ==
  (LookupRan /\ clicked = "search" /\ search_id \in InvalidTexts \cup {T_empty}) =>
     /\ LookupShown = (IF search_id = T_empty THEN {"empty_input"}
                       ELSE {"invalid_id"})
     /\ (pc = "crashed") => (DuplicateLabel(legit_ids) \/ DuplicateLabel(fraud_ids))
     /\ (pc = "done") => (Results = baseline)

\* "1.0" was submitted against a non-empty table and the render completed
C6_Witness ==
  /\ pc = "done" /\ clicked = "search" /\ search_id = T_float
  /\ Len(df.rows) > 0
  /\ LookupShown = {"invalid_id"}
  /\ baseline.total = total

\* rows is the first min(limit, m) rows of d, in order, whose cell in pcol is v
FirstMatching(rows, d, pcol, v, limit) ==
  LET S == RowsWith(d, pcol, v)
  IN /\ Len(rows) = Min(limit, Cardinality(S))
     /\ \A j \in 1..Len(rows) : rows[j] = d.rows[Nth(S, j)]

C8_EmptyTable ==
  (Loaded /\ df.rows = <<>>) =>
     /\ pc \notin {"crashed", "stopped"}
     /\ "exception" \notin shown
     /\ MetricsRan =>
          /\ total = 0 /\ fraud = 0 /\ legit = 0
          /\ fraud_rate.num = 0 /\ fraud_rate.den # 0
     /\ (LookupRan /\ clicked = "search" /\ search_id \in IntegerTexts) =>
          LookupShown = {"not_found"}
     /\ QuickRan => (legit_ids = <<>> /\ fraud_ids = <<>>)
     /\ (pc = "done") => (fraud_samples.rows = <<>> /\ legit_samples.rows = <<>>)

\* a lookup of "1" on a header-only file ran to the end
C8_Witness ==
  /\ pc = "done" /\ ~df.isNone /\ df.rows = <<>>
  /\ cache.value.df.rows = <<>>
  /\ clicked = "search" /\ search_id = T_1
  /\ LookupShown = {"not_found"}
  /\ fraud_rate = [num |-> 0, den |-> 1]

\* C9: once loaded, the table, idColumn and predictionColumn are the same in
\* every render, whatever the interaction, and so are the metrics and samples.
C9_TableImmutable ==
  /\ (pc = "done") => (Results = baseline)
  /\ (Loaded /\ baseline.set) => (cache.value.df.rows = baseline.df.rows)

\* the file was removed after the page load and a quick-test click rendered
C9_Witness ==
  /\ pc = "done" /\ clicked = "fraud0"
  /\ file = MissingFile
  /\ baseline.set /\ Len(baseline.df.rows) > 1
  /\ df = baseline.df

\* C10: every id on a button labelled FRAUDULENT is Fraudulent for the
\* lookup and every id on a button labelled LEGITIMATE is Legitimate.
C10_QuickTestAgreesWithLookup ==
  QuickRan =>
     /\ \A j \in 1..Len(fraud_ids) :
          LookupMessage(df, id_col, pred_col, TRUE, IntStr(fraud_ids[j]))
            = "fraud_alert"
     /\ \A j \in 1..Len(legit_ids) :
          LookupMessage(df, id_col, pred_col, TRUE, IntStr(legit_ids[j]))
            = "safe_alert"

====
